---- MODULE Spec2Model ----
(***************************************************************************)
(* Model of git-fake.py: GitCommitGenerator, the file-state tracker        *)
(* (existing_files against the working tree) and the commit sequencer      *)
(* (generate_history: time series, retry loop, counters).                  *)
(*                                                                         *)
(* Paths are sequences of one-character strings so that the substring test *)
(* of scan_existing_files and the formatting of file_<n+1>.txt are         *)
(* computed, not assumed.  Instants are integers counted in ticks of the    *)
(* clock, TicksPerSecond to the second.                                    *)
(***************************************************************************)
EXTENDS Integers, Sequences, FiniteSets, TLC

(***************************************************************************)
(* Bounds of the model                                                     *)
(***************************************************************************)
MaxCommits == 2      \* num_commits ranges over 0..MaxCommits
MaxDaysBack == 1     \* days_back ranges over 0..MaxDaysBack
TicksPerSecond == 2  \* resolution of the clock: instants are counted in ticks

(***************************************************************************)
(* Program constants                                                       *)
(***************************************************************************)
max_attempts == 3
SecondsPerDay == 86400
CreatePercent == 30
\* the defaults of --num-commits and --days-back
DefaultCommits == 5
DefaultDaysBack == 10
\* self.authors, by position in the list
Authors == {1, 2, 3}
\* the ways one call of generate_commit can fail: open() or write() of the
\* file, os.remove, git add, git commit
FaultsFor(kind) ==
    IF kind = "delete" THEN {"remove", "add", "commit"}
    ELSE {"open", "write", "add", "commit"}
\* the ways the calls of initialize_repo can fail: os.makedirs and Repo.init on
\* a path that does not exist, Repo() and the listing of repo_path by os.walk
\* on a repository
InitFaults(exists, repo) ==
    IF ~exists THEN {"makedirs", "init"}
    ELSE IF repo THEN {"open", "scan"}
    ELSE {}

\* The environments a run is checked in.  faults: how many failures are injected
\* into the calls of generate_commit; ticks: the ticks that can elapse between
\* two reads of the clock; seconds: the values drawn for random_seconds;
\* random: the values drawn for random.random(), in hundredths; actions: the
\* values drawn by random.choice(['modify', 'delete']); days: the values drawn
\* for random_days, among 0..days_back; authors: the indexes drawn by
\* random.choice(self.authors); init: whether the calls of initialize_repo can
\* fail.
\* FaultyEnv exercises the tracker and the retry loop, with as many failures as
\* make every attempt of one slot fail; TimedEnv exercises the time series.
FaultyEnv == [faults |-> max_attempts, ticks |-> {0}, seconds |-> {0},
              random |-> {29, 30}, actions |-> {"modify", "delete"},
              days |-> {0}, authors |-> {1}, init |-> TRUE]
TimedEnv == [faults |-> 1, ticks |-> {0, 1}, seconds |-> {0, 86400},
             random |-> {30}, actions |-> {"modify"},
             days |-> 0..MaxDaysBack, authors |-> {1}, init |-> FALSE]
\* CleanEnv: no failure is injected
CleanEnv == [faults |-> 0, ticks |-> {0}, seconds |-> {0},
             random |-> {29, 30}, actions |-> {"modify", "delete"},
             days |-> {0, DefaultDaysBack}, authors |-> Authors, init |-> FALSE]
\* DivergedEnv: another process removes files of the working tree during the
\* run; faults counts these removals too
DivergedEnv == [faults |-> 2, ticks |-> {0}, seconds |-> {0},
                random |-> {29, 30}, actions |-> {"modify", "delete"},
                days |-> {0}, authors |-> {1}, init |-> FALSE]

(***************************************************************************)
(* Strings as character sequences, os.path helpers                         *)
(***************************************************************************)
Sep == <<"/">>
GitDir == <<".", "g", "i", "t">>
HeadFile == GitDir \o Sep \o <<"H", "E", "A", "D">>
ReadmeFile == <<"a", ".", "t", "x", "t">>
WorkflowFile == <<".", "g", "i", "t", "h", "u", "b">> \o Sep \o <<"c", "i">>
RepoPaths == { <<"/", "r">> }
\* the layouts of repo_path before the run: no repository, a repository with
\* no file, with a file and a CI workflow directory
InitialLayouts == {{}, {ReadmeFile}, {HeadFile},
                   {HeadFile, ReadmeFile, WorkflowFile}}

\* Python's  sub in s  on strings
Contains(s, sub) ==
    \E k \in 0..(Len(s) - Len(sub)) : SubSeq(s, k + 1, k + Len(sub)) = sub

StartsWith(s, pre) ==
    Len(s) >= Len(pre) /\ SubSeq(s, 1, Len(pre)) = pre

\* index of the last separator of p, 0 when there is none
LastSep(p) ==
    LET idx == {k \in 1..Len(p) : p[k] = "/"}
    IN IF idx = {} THEN 0 ELSE CHOOSE k \in idx : \A j \in idx : j <= k

Dirname(p) == IF LastSep(p) = 0 THEN <<>> ELSE SubSeq(p, 1, LastSep(p) - 1)
Basename(p) == SubSeq(p, LastSep(p) + 1, Len(p))

\* os.path.join(a, b) for a relative b
join(a, b) == IF a = <<>> THEN b ELSE a \o Sep \o b

\* os.path.relpath(p, start) for p below start
relpath(p, start) == SubSeq(p, Len(start) + 2, Len(p))

\* str() of a natural number
DigitChar == <<"0", "1", "2", "3", "4", "5", "6", "7", "8", "9">>
RECURSIVE Dec(_)
Dec(n) == IF n < 10 THEN <<DigitChar[n + 1]>>
          ELSE Dec(n \div 10) \o <<DigitChar[(n % 10) + 1]>>

\* f"file_{n+1}.txt"
FileName(n) == <<"f", "i", "l", "e", "_">> \o Dec(n + 1) \o <<".", "t", "x", "t">>

\* the files of the working tree outside the VCS metadata directory
InGitDir(p) == p = GitDir \/ StartsWith(p, GitDir \o Sep)
WorkTree(d) == {p \in d : ~InGitDir(p)}

\* faulty variant: every existing directory is taken for a repository
IsRepo_any_directory(d) == TRUE

\* line 76: repo_path has a .git entry
IsRepo(d) == \E p \in d : InGitDir(p)

(***************************************************************************)
(* State                                                                   *)
(***************************************************************************)
VARIABLES
    pc,                 \* position in generate_history
    repo_path,          \* self.repo_path
    path_exists,        \* os.path.exists(self.repo_path)
    disk,               \* files below repo_path, as relative paths
    existing_files,     \* self.existing_files
    num_commits,        \* argument of generate_history
    days_back,          \* argument of generate_history
    now,                \* the wall clock, last value read by datetime.now()
    start_time,         \* start_time of generate_history
    drawn,              \* the list comprehension of line 403, as built so far
    reads,              \* the clock reading each element of drawn was computed from
    commit_dates,       \* commit_dates of generate_history
    i,                  \* loop index of the for loop (1-based), 0 before the loop
    attempts,           \* attempts of the current slot
    success,            \* success of the current slot
    successful_commits, \* successful_commits
    failed_commits,     \* failed_commits
    calls,              \* history: one record per call of generate_commit
    last,               \* history: what the last call of generate_commit did
    commits,            \* the dates of the commits made in this run, in order
    injected,           \* history: the failures injected so far
    env,                \* the environment of the run
    head,               \* the files of the last commit of the repository
    dirty,              \* the files whose working copy differs from that commit
    pending,            \* history: mutations applied since the last commit made
    before              \* history: repo_path as it was before the run, and
                        \* the failure met by initialize_repo

vars == <<pc, repo_path, path_exists, disk, existing_files, num_commits,
          days_back, now, start_time, drawn, reads, commit_dates, i, attempts,
          success, successful_commits, failed_commits, calls, last, commits, injected, env, head,
                   dirty, pending, before>>

NoCall == [kind |-> "none", target |-> <<>>, tracked |-> {}, r |-> 0,
           fault |-> "none", on_disk |-> FALSE, request |-> <<>>,
           changes |-> {}, mutations |-> 0,
           changed |-> FALSE, staged |-> FALSE, submitted |-> FALSE,
           accepted |-> FALSE, outcome |-> "none"]

\* the state before generate_history is called, in environment e, with
\* num_commits drawn from N, days_back from D and, when repo_path exists, its
\* files from L; the working tree of an existing repository is clean
InitIn(e, N, D, L) ==
    /\ pc = "start"
    /\ repo_path \in RepoPaths
    /\ path_exists \in BOOLEAN
    /\ disk \in IF path_exists THEN L ELSE {{}}
    /\ before = [exists |-> path_exists, disk |-> disk, init_fault |-> "none"]
    /\ head = IF IsRepo(disk) THEN WorkTree(disk) ELSE {}
    /\ dirty = {}
    /\ pending = 0
    /\ existing_files = {}
    /\ num_commits \in N
    /\ days_back \in D
    /\ now = 0
    /\ start_time = 0
    /\ drawn = <<>>
    /\ reads = <<>>
    /\ commit_dates = <<>>
    /\ i = 0
    /\ attempts = 0
    /\ success = FALSE
    /\ successful_commits = 0
    /\ failed_commits = 0
    /\ calls = <<>>
    /\ last = NoCall
    /\ commits = <<>>
    /\ injected = 0
    /\ env = e

Init == InitIn(FaultyEnv, 0..MaxCommits, {0}, InitialLayouts)

InitSeries == InitIn(TimedEnv, 0..MaxCommits, 0..MaxDaysBack, InitialLayouts)

\* the default batch on a path that does not exist or is an empty directory
InitFresh == InitIn(CleanEnv, {DefaultCommits}, {DefaultDaysBack}, {{}})

InitDiverged == InitIn(DivergedEnv, 0..MaxCommits, {0}, InitialLayouts)

(***************************************************************************)
(* File-state tracker                                                      *)
(***************************************************************************)
\* os.walk(repo_path): one <<root, file>> per file below repo_path, root being
\* repo_path itself for the files at the top
walk(rp, d) ==
    {<<IF Dirname(p) = <<>> THEN rp ELSE join(rp, Dirname(p)), Basename(p)>> : p \in d}

\* scan_existing_files: the set it leaves in self.existing_files
scan_existing_files(rp, d) ==
    {relpath(join(e[1], e[2]), rp) : e \in {x \in walk(rp, d) : ~Contains(x[1], GitDir)}}

\* _create_file: open(file_path, 'w') creates or truncates the file, then write
create_file(d, f, name, fault) ==
    IF fault = "open" THEN [ok |-> FALSE, disk |-> d, files |-> f]
    ELSE IF fault = "write" THEN [ok |-> FALSE, disk |-> d \cup {name}, files |-> f]
    ELSE [ok |-> TRUE, disk |-> d \cup {name}, files |-> f \cup {name}]

\* _modify_file: open(file_path, 'a') creates the file when it is missing
modify_file(d, f, name, fault) ==
    IF fault = "open" THEN [ok |-> FALSE, disk |-> d, files |-> f]
    ELSE IF fault = "write" THEN [ok |-> FALSE, disk |-> d \cup {name}, files |-> f]
    ELSE [ok |-> TRUE, disk |-> d \cup {name}, files |-> f]

\* faulty variant: the name leaves the set before os.remove is called
delete_file_set_first(d, f, name, fault) ==
    IF fault = "remove" \/ name \notin d
    THEN [ok |-> FALSE, disk |-> d, files |-> f \ {name}]
    ELSE [ok |-> TRUE, disk |-> d \ {name}, files |-> f \ {name}]

\* faulty variant: the file is removed and its name stays in the set
delete_file_keeps_entry(d, f, name, fault) ==
    IF fault = "remove" \/ name \notin d THEN [ok |-> FALSE, disk |-> d, files |-> f]
    ELSE [ok |-> TRUE, disk |-> d \ {name}, files |-> f]

\* _delete_file: os.remove raises when the file is missing
delete_file(d, f, name, fault) ==
    IF fault = "remove" \/ name \notin d THEN [ok |-> FALSE, disk |-> d, files |-> f]
    ELSE [ok |-> TRUE, disk |-> d \ {name}, files |-> f \ {name}]

\* faulty variant: the test of line 166 without  not self.existing_files
ChooseCreate_no_empty_test(f, r) == r < CreatePercent

\* the branch of generate_random_file_change: create, or modify/delete of pick
ChooseCreate(f, r) == f = {} \/ r < CreatePercent

\* faulty variant: the choice also returns the next generated name
ChoiceOf_untracked(f) == f \cup {FileName(Cardinality(f))}

\* random.choice(list(self.existing_files)): the values it can return
ChoiceOf(f) == f

\* faulty variant: the name takes the first number that is not in use
NewName_unused(f) ==
    FileName(CHOOSE n \in 0..Cardinality(f) : FileName(n) \notin f)

\* line 167: the name of the file a create makes
NewName(f) == FileName(Cardinality(f))

\* generate_random_file_change: ok is FALSE when it returns None; random.choice
\* raises IndexError on an empty list, before any action is chosen
generate_random_file_change(d, f, r, pick, action, fault) ==
    IF ChooseCreate(f, r)
    THEN [kind |-> "create", target |-> NewName(f)]
         @@ create_file(d, f, NewName(f), fault)
    ELSE IF f = {}
    THEN [kind |-> "error", target |-> <<>>, ok |-> FALSE, disk |-> d, files |-> f]
    ELSE IF action = "modify"
    THEN [kind |-> "modify", target |-> pick] @@ modify_file(d, f, pick, fault)
    ELSE [kind |-> "delete", target |-> pick] @@ delete_file(d, f, pick, fault)

(***************************************************************************)
(* Commit sequencer                                                        *)
(***************************************************************************)
\* generate_commit_date: start_date is the clock reading of this call
generate_commit_date(start_date, random_days, random_seconds) ==
    start_date - (random_days * SecondsPerDay + random_seconds) * TicksPerSecond

\* sorted(..., reverse=True)
RECURSIVE InsertDesc(_, _)
InsertDesc(x, s) ==
    IF s = <<>> THEN <<x>>
    ELSE IF x > Head(s) THEN <<x>> \o s
    ELSE <<Head(s)>> \o InsertDesc(x, Tail(s))

RECURSIVE SortedReverse(_)
SortedReverse(s) ==
    IF s = <<>> THEN <<>> ELSE InsertDesc(Head(s), SortedReverse(Tail(s)))

\* strftime('%Y-%m-%d %H:%M:%S'), as the instant the string denotes: the
\* fraction of a second is dropped
strftime(t) == t - (t % TicksPerSecond)

\* the files that differ from the last commit once path p has been written or
\* removed, d being the files on disk afterwards: a file that is there differs,
\* a file that is gone differs when the last commit has it
status_after(hd, dt, p, d) ==
    IF p \in d \/ p \in hd THEN dt \cup {p} ELSE dt \ {p}

\* git commit --date/--author as requested by lines 218-227, at instant clock,
\* after git add --all: --date sets the author date, the committer date is the
\* instant of the commit, in whole seconds
git_commit(req, clock) ==
    [author |-> req.author,
     author_date |-> IF req.date = <<>> THEN strftime(clock) ELSE req.date[1],
     committed_date |-> strftime(clock)]

\* what get_repo_statistics reads of a commit (committed_datetime), with the
\* author date next to it
dates_of(c) == [author_date |-> c.author_date, committed_date |-> c.committed_date]

\* the body of generate_commit, lines 198-230: outcome "raised" is an exception
\* thrown inside the try block, accepted tells whether git commit made a
\* commit.  vcs is the repository ([head, dirty]), date is
\* <<>> for None and <<t>> for a datetime.  git commit exits with an error
\* when no file differs from the last commit.
generate_commit_body(d, f, r, pick, action, fault, vcs, date, author) ==
    LET c == generate_random_file_change(d, f, r, pick, action, fault)
        touched == c.ok \/ c.disk # d \/ (c.kind = "create" /\ fault = "write")
        dt == IF touched
              THEN status_after(vcs.head, vcs.dirty, c.target, c.disk)
              ELSE vcs.dirty
        req == [author |-> author,
                date |-> IF date = <<>> THEN <<>> ELSE <<strftime(date[1])>>]
        base == [kind |-> c.kind, target |-> c.target, tracked |-> f,
                 r |-> r, fault |-> fault, on_disk |-> c.target \in d,
                 disk |-> c.disk, files |-> c.files, changed |-> c.ok,
                 changes |-> dt]
    IN IF ~c.ok
       THEN base @@ [staged |-> FALSE, submitted |-> FALSE, request |-> <<>>,
                     head |-> vcs.head, dirty |-> dt, accepted |-> FALSE,
                     outcome |-> "false"]
       ELSE IF fault = "add"
       THEN base @@ [staged |-> FALSE, submitted |-> FALSE, request |-> <<>>,
                     head |-> vcs.head, dirty |-> dt, accepted |-> FALSE,
                     outcome |-> "raised"]
       ELSE IF fault = "commit" \/ dt = {}
       THEN base @@ [staged |-> TRUE, submitted |-> TRUE, request |-> <<req>>,
                     head |-> vcs.head, dirty |-> dt, accepted |-> FALSE,
                     outcome |-> "raised"]
       ELSE base @@ [staged |-> TRUE, submitted |-> TRUE, request |-> <<req>>,
                     head |-> (vcs.head \ dt) \cup (dt \cap c.disk),
                     dirty |-> {}, accepted |-> TRUE, outcome |-> "true"]

\* faulty variant: generate_commit without its except clause
generate_commit_no_except(d, f, r, pick, action, fault, vcs, date, author) ==
    generate_commit_body(d, f, r, pick, action, fault, vcs, date, author)

\* faulty variant: the return True of line 230 is missing, the call returns None
generate_commit_no_return(d, f, r, pick, action, fault, vcs, date, author) ==
    LET b == generate_commit_body(d, f, r, pick, action, fault, vcs, date, author)
    IN [b EXCEPT !.outcome = "false"]

\* faulty variant: a failed staging or commit undoes the mutation
generate_commit_rollback(d, f, r, pick, action, fault, vcs, date, author) ==
    LET b == generate_commit_body(d, f, r, pick, action, fault, vcs, date, author)
    IN IF b.outcome = "raised"
       THEN [b EXCEPT !.outcome = "false", !.disk = d, !.files = f,
                      !.dirty = vcs.dirty]
       ELSE b

\* generate_commit: except Exception turns a raise into return False
generate_commit(d, f, r, pick, action, fault, vcs, date, author) ==
    LET b == generate_commit_body(d, f, r, pick, action, fault, vcs, date, author)
    IN IF b.outcome = "raised" THEN [b EXCEPT !.outcome = "false"] ELSE b

\* the files os.walk reports: with onerror left to None, os.walk skips a
\* directory it cannot list and reports no error
listed(d, fault) == IF fault = "scan" THEN {} ELSE d

\* initialize_repo, called from generate_history after start_time is read
InitializeRepo ==
    /\ pc = "start"
    /\ \E fault \in {"none"} \cup IF env.init
                                  THEN InitFaults(path_exists, IsRepo(disk))
                                  ELSE {} :
        /\ start_time' = now
        /\ before' = [before EXCEPT !.init_fault = fault]
        /\ UNCHANGED now
        /\ IF ~path_exists
           THEN IF fault = "makedirs"
                THEN /\ pc' = "init_failed"
                     /\ UNCHANGED <<path_exists, disk, existing_files>>
                ELSE IF fault = "init"
                THEN /\ pc' = "init_failed"
                     /\ path_exists' = TRUE
                     /\ UNCHANGED <<disk, existing_files>>
                ELSE /\ pc' = "series"
                     /\ path_exists' = TRUE
                     /\ disk' = {HeadFile}
                     /\ existing_files' = {}
           ELSE IF ~IsRepo(disk) \/ fault = "open"
                THEN /\ pc' = "init_failed"
                     /\ UNCHANGED <<path_exists, disk, existing_files>>
                ELSE /\ pc' = "series"
                     /\ existing_files' =
                            scan_existing_files(repo_path, listed(disk, fault))
                     /\ UNCHANGED <<path_exists, disk>>
    /\ UNCHANGED <<repo_path, num_commits, days_back, drawn, reads, commit_dates,
                   i, attempts, success, successful_commits, failed_commits,
                   calls, last, commits, injected, env, head, dirty, pending>>

\* one element of the list comprehension of line 403
DrawDate ==
    /\ pc = "series"
    /\ Len(drawn) < num_commits
    /\ \E adv \in env.ticks, rd \in (0..days_back) \cap env.days, rs \in env.seconds :
        /\ now' = now + adv
        /\ drawn' = Append(drawn, generate_commit_date(now', rd, rs))
        /\ reads' = Append(reads, now')
    /\ UNCHANGED <<pc, repo_path, path_exists, disk, existing_files, num_commits,
                   days_back, start_time, commit_dates, i, attempts, success,
                   successful_commits, failed_commits, calls, last, commits, injected, env, head,
                   dirty, pending, before>>

\* faulty variant: the series without the sort of line 402
MakeSeries_unsorted(s) == s

\* the series as generate_history builds it from the drawn dates
MakeSeries(s) == SortedReverse(s)

\* lines 402-410: sort the series, log its range, reset the counters;
\* commit_dates[-1] raises IndexError on an empty series
SortSeries ==
    /\ pc = "series"
    /\ Len(drawn) = num_commits
    /\ commit_dates' = MakeSeries(drawn)
    /\ IF commit_dates' = <<>>
       THEN pc' = "raised" /\ UNCHANGED <<successful_commits, failed_commits>>
       ELSE pc' = "for" /\ successful_commits' = 0 /\ failed_commits' = 0
    /\ UNCHANGED <<repo_path, path_exists, disk, existing_files, num_commits,
                   days_back, now, start_time, drawn, reads, i, attempts, success,
                   calls, last, commits, injected, env, head,
                   dirty, pending, before>>

\* faulty variant: the loop stops one date early
MoreSlots_short(idx, dates) == idx < Len(dates) - 1

\* the for loop of line 412 has another date to take
MoreSlots(idx, dates) == idx < Len(dates)

\* line 412: the for loop takes the next date of the series
NextSlot ==
    /\ pc = "for"
    /\ MoreSlots(i, commit_dates)
    /\ i' = i + 1
    /\ success' = FALSE
    /\ attempts' = 0
    /\ pc' = "while"
    /\ drawn' = <<>>
    /\ reads' = <<>>
    /\ UNCHANGED <<repo_path, path_exists, disk, existing_files, num_commits,
                   days_back, now, start_time, commit_dates, successful_commits,
                   failed_commits, calls, last, commits, injected, env, head,
                   dirty, pending, before>>

\* faulty variant: the loop condition with <= for <
Retry_off_by_one(s, a) == ~s /\ a <= max_attempts

\* the loop condition of line 419
Retry(s, a) == ~s /\ a < max_attempts

\* lines 419-425: one iteration of the retry loop, one call of generate_commit
Attempt ==
    /\ pc = "while"
    /\ Retry(success, attempts)
    /\ attempts' = attempts + 1
    /\ \E r \in env.random, action \in env.actions, author \in Authors \cap env.authors :
        \E pick \in IF ChooseCreate(existing_files, r) \/ existing_files = {}
                    THEN {<<>>}
                    ELSE ChoiceOf(existing_files),
           fault \in {"none"} \cup
                     IF injected < env.faults
                     THEN FaultsFor(IF ChooseCreate(existing_files, r)
                                    THEN "create" ELSE action)
                     ELSE {} :
            LET g == generate_commit(disk, existing_files, r, pick, action, fault,
                                     [head |-> head, dirty |-> dirty],
                                     <<commit_dates[i]>>, author)
                n == IF g.changed THEN pending + 1 ELSE pending
            IN /\ injected' = IF fault = "none" THEN injected ELSE injected + 1
               /\ disk' = g.disk
               /\ existing_files' = g.files
               /\ head' = g.head
               /\ dirty' = g.dirty
               /\ pending' = IF g.outcome = "true" THEN 0 ELSE n
               /\ last' = [kind |-> g.kind, target |-> g.target,
                           tracked |-> g.tracked, r |-> g.r, fault |-> g.fault,
                           on_disk |-> g.on_disk, request |-> g.request,
                           changes |-> IF g.staged THEN g.changes ELSE {},
                           mutations |-> n,
                           changed |-> g.changed, staged |-> g.staged,
                           submitted |-> g.submitted, accepted |-> g.accepted,
                           outcome |-> g.outcome]
               /\ calls' = Append(calls, [slot |-> i, date |-> commit_dates[i],
                                          ok |-> g.outcome = "true"])
               /\ commits' = IF g.accepted
                             THEN Append(commits,
                                         dates_of(git_commit(g.request[1], now)))
                             ELSE commits
               /\ IF g.outcome = "raised"
                  THEN pc' = "raised" /\ UNCHANGED success
                  ELSE pc' = "while" /\ success' = (g.outcome = "true")
    /\ UNCHANGED <<repo_path, path_exists, num_commits, days_back, now, start_time,
                   drawn, reads, commit_dates, i, successful_commits, failed_commits,
                   env, before>>

\* faulty variant: the two counters are taken for each other
tally_swapped(ok, s, f) == IF ok THEN <<s, f + 1>> ELSE <<s + 1, f>>

\* faulty variant: a failed slot is not counted
tally_drops_failure(ok, s, f) == IF ok THEN <<s + 1, f>> ELSE <<s, f>>

\* lines 427-430: the counters <<successful_commits, failed_commits>> after a slot
tally(ok, s, f) == IF ok THEN <<s + 1, f>> ELSE <<s, f + 1>>

\* lines 427-431: the slot is counted
Tally ==
    /\ pc = "while"
    /\ ~Retry(success, attempts)
    /\ successful_commits' = tally(success, successful_commits, failed_commits)[1]
    /\ failed_commits' = tally(success, successful_commits, failed_commits)[2]
    /\ pc' = "for"
    /\ UNCHANGED <<repo_path, path_exists, disk, existing_files, num_commits,
                   days_back, now, start_time, drawn, reads, commit_dates, i,
                   attempts, success, calls, last, commits, injected, env, head,
                   dirty, pending, before>>

\* lines 433-445: the summary, after the last slot
Summary ==
    /\ pc = "for"
    /\ ~MoreSlots(i, commit_dates)
    /\ pc' = "done"
    /\ UNCHANGED <<repo_path, path_exists, disk, existing_files, num_commits,
                   days_back, now, start_time, drawn, reads, commit_dates, i, attempts,
                   success, successful_commits, failed_commits, calls, last, commits, injected, env, head,
                   dirty, pending, before>>

\* another process removes a file of the working tree while the loop runs
ExternalRemove ==
    /\ pc \in {"for", "while"}
    /\ injected < env.faults
    /\ \E p \in WorkTree(disk) :
        /\ disk' = disk \ {p}
        /\ dirty' = status_after(head, dirty, p, disk')
    /\ injected' = injected + 1
    /\ UNCHANGED <<pc, repo_path, path_exists, existing_files, num_commits,
                   days_back, now, start_time, drawn, reads, commit_dates, i,
                   attempts, success, successful_commits, failed_commits, calls,
                   last, commits, env, head, pending, before>>

Next ==
    \/ InitializeRepo
    \/ DrawDate
    \/ SortSeries
    \/ NextSlot
    \/ Attempt
    \/ Tally
    \/ Summary

Spec == Init /\ [][Next]_vars

SpecSeries == InitSeries /\ [][Next]_vars

SpecFresh == InitFresh /\ [][Next]_vars

NextDiverged == Next \/ ExternalRemove

SpecDiverged == InitDiverged /\ [][NextDiverged]_vars

TypeOK ==
    /\ pc \in {"start", "init_failed", "series", "for", "while", "done", "raised"}
    /\ i \in 0..num_commits
    /\ attempts \in 0..max_attempts

(***************************************************************************)
(* Properties                                                              *)
(***************************************************************************)
\* the calls of generate_commit made for slot k
CallsOf(k) == {j \in 1..Len(calls) : calls[j].slot = k}

\* the slots whose retry loop has ended and that have been counted
Processed == IF pc = "while" THEN i - 1 ELSE i

\* slot k had an attempt that returned True
Succeeded(k) == \E j \in CallsOf(k) : calls[j].ok

\* a commit attempt is about to start, or the batch has ended
AtAttemptOrEnd == (pc = "while" /\ Retry(success, attempts)) \/ pc = "done"

\* C1: at the start of every commit attempt and at the end of the batch the
\* tracked set equals the set of files of the working tree outside .git
C1_TrackedEqualsDisk ==
    AtAttemptOrEnd => existing_files = WorkTree(disk)

\* C2: successful_commits + failed_commits is the number of slots processed, at
\* every point of the loop, and num_commits at the end; a slot adds 1 to
\* successful_commits when it succeeded and 1 to failed_commits otherwise
C2_CountersSumToSlots ==
    pc \in {"for", "while", "done"} =>
        /\ successful_commits + failed_commits = Processed
        /\ successful_commits = Cardinality({k \in 1..Processed : Succeeded(k)})
        /\ failed_commits = Cardinality({k \in 1..Processed : ~Succeeded(k)})
        /\ pc = "done" => successful_commits + failed_commits = num_commits

C2_Witness ==
    pc = "done" /\ num_commits = 2 /\ successful_commits = 1 /\ failed_commits = 1

\* C3: every slot gets at least one and at most 3 calls of generate_commit, none
\* after a call that returned True, and a slot counted as failed had exactly 3
\* calls that all returned False
C3_AttemptsBounded ==
    /\ \A k \in 1..i :
        /\ Cardinality(CallsOf(k)) <= 3
        /\ \A j \in CallsOf(k) : calls[j].ok => \A j2 \in CallsOf(k) : j2 <= j
    /\ \A k \in 1..Processed :
        /\ Cardinality(CallsOf(k)) >= 1
        /\ ~Succeeded(k) => Cardinality(CallsOf(k)) = 3
    /\ pc \in {"for", "while", "done"} =>
           failed_commits = Cardinality({k \in 1..Processed :
                                Cardinality(CallsOf(k)) = 3 /\ ~Succeeded(k)})

C3_Witness ==
    /\ pc = "done"
    /\ \E k \in 1..i : Cardinality(CallsOf(k)) = 3 /\ ~Succeeded(k)
    /\ \E k \in 1..i : Cardinality(CallsOf(k)) = 1 /\ Succeeded(k)
    /\ failed_commits = 1

\* C4: the slots are processed once each, in the order of the series, also
\* after a slot has failed: the calls are in slot order, every processed slot
\* has its calls, the batch ends with every slot of the series processed, and
\* no error ends the batch once the loop has started
C4_SlotsInOrder ==
    /\ \A j \in 1..Len(calls) : calls[j].slot \in 1..i
    /\ \A j \in 1..(Len(calls) - 1) : calls[j].slot <= calls[j + 1].slot
    /\ \A k \in 1..Processed : CallsOf(k) # {}
    /\ pc = "done" => i = num_commits /\ Processed = Len(commit_dates)
    /\ pc = "raised" => i = 0

C4_Witness ==
    /\ pc = "while"
    /\ i = 2
    /\ Cardinality(CallsOf(1)) = 3 /\ ~Succeeded(1)
    /\ CallsOf(2) # {}

\* C5: once initialize_repo has succeeded, no error escapes generate_history
C5_NoErrorAfterInit ==
    pc # "raised"

\* C6: generate_commit returns False and does not raise when the mutation, the
\* staging or the commit fails, and when the mutation fails it requests neither
\* git add nor git commit
C6_AttemptReturnsFalse ==
    last.kind # "none" =>
        /\ last.outcome \in {"true", "false"}
        /\ last.fault # "none" => last.outcome = "false"
        /\ ~last.changed =>
               last.outcome = "false" /\ ~last.staged /\ ~last.submitted
        /\ last.outcome = "true" => last.changed /\ last.staged /\ last.submitted

C6_Witness ==
    /\ last.fault = "commit"
    /\ last.changed
    /\ last.outcome = "false"
    /\ pc = "while"

\* C7: with an empty tracked set generate_random_file_change chooses create,
\* whatever random.random() returns; modify and delete are chosen only with a
\* non-empty tracked set
C7_EmptySetCreates ==
    last.kind # "none" =>
        /\ last.tracked = {} => last.kind = "create"
        /\ last.kind \in {"modify", "delete"} => last.tracked # {}

C7_Witness ==
    last.kind = "create" /\ last.tracked = {} /\ last.r >= CreatePercent

\* C8: the target of a modify or delete is an element of the tracked set as it
\* was when the target was chosen
C8_TargetTracked ==
    last.kind \in {"modify", "delete"} => last.target \in last.tracked

C8_Witness ==
    /\ last.kind = "delete"
    /\ last.changed
    /\ Cardinality(last.tracked) >= 2
    /\ last.target \notin existing_files

\* s is sorted non-increasing
NonIncreasing(s) == \A j \in 1..(Len(s) - 1) : s[j] >= s[j + 1]

\* the series has just been built
SeriesBuilt == pc = "for" /\ i = 0

\* C9: the series has num_commits instants, is sorted non-increasing, and some
\* instant anchor of the run bounds all of it:
\* anchor - (days_back + 1) days <= t <= anchor
C9_SeriesWithinWindow ==
    SeriesBuilt =>
        /\ Len(commit_dates) = num_commits
        /\ NonIncreasing(commit_dates)
        /\ \E anchor \in start_time..now :
            \A j \in 1..Len(commit_dates) :
                /\ commit_dates[j] <= anchor
                /\ commit_dates[j] >= anchor - (days_back + 1) * SecondsPerDay
                                                 * TicksPerSecond

Called == Len(calls') = Len(calls) + 1

\* the names that generate_random_file_change makes
Generated(p) == StartsWith(p, <<"f", "i", "l", "e", "_">>)

\* C11: a successful create adds its name to the tracked set and its file to
\* the disk, a successful delete removes the name from the tracked set and the
\* file from the disk, and neither changes any other tracked path or file
C11_CreateThenDelete ==
    [][(Called /\ last'.changed) =>
          /\ last'.kind = "create" =>
                 /\ existing_files' = existing_files \cup {last'.target}
                 /\ disk' = disk \cup {last'.target}
          /\ last'.kind = "delete" =>
                 /\ existing_files' = existing_files \ {last'.target}
                 /\ disk' = disk \ {last'.target}]_vars

C11_Witness ==
    /\ last.kind = "delete"
    /\ last.changed
    /\ Generated(last.target)
    /\ last.target \notin existing_files
    /\ last.target \notin disk
    /\ existing_files # {}

\* the last call of generate_commit applied a mutation
Mutated == last.kind \in {"create", "modify", "delete"}

\* C12: a mutation that fails leaves the tracked set as it was and makes
\* generate_commit return False: a create that cannot write its file does not
\* add the name, a delete whose file is missing on disk does not remove it
C12_FailedMutationKeepsSet ==
    (Mutated /\ ~last.changed) =>
        /\ existing_files = last.tracked
        /\ last.outcome = "false"
        /\ last.kind = "create" =>
               (last.target \in existing_files <=> last.target \in last.tracked)
        /\ last.kind = "delete" => last.target \in existing_files

C12_Witness ==
    /\ last.kind = "delete"
    /\ last.fault = "none"
    /\ ~last.on_disk
    /\ ~last.changed
    /\ last.target \in existing_files
    /\ last.outcome = "false"

\* C13: a modify of a tracked name whose file is missing on disk fails, makes
\* generate_commit return False and does not create the file; a modify of a
\* file that is there leaves the tracked set as it was
C13_ModifyMissingFails ==
    last.kind = "modify" =>
        /\ ~last.on_disk =>
               ~last.changed /\ last.outcome = "false" /\ last.target \notin disk
        /\ (last.on_disk /\ last.changed) => existing_files = last.tracked

\* C14: after the scan of initialize_repo the tracked set is the set of the
\* files below repo_path that are not inside .git, whatever directory they
\* are in
C14_ScanIsWorkTree ==
    (pc = "series" /\ before.exists) =>
        /\ existing_files = WorkTree(disk)
        /\ \A p \in existing_files : ~InGitDir(p)

\* the batch ended with a summary that counts every slot of the default batch
\* and at least one success; no error ended it
DefaultBatchCounted ==
    /\ pc \notin {"init_failed", "raised"}
    /\ pc = "done" =>
           /\ successful_commits + failed_commits = DefaultCommits
           /\ successful_commits >= 1

\* C15: generate_history(num_commits=5, days_back=10) on a path that does not
\* exist yet, with no failure injected, ends with successful_commits +
\* failed_commits = 5 and successful_commits >= 1
C15_NewPathBatchCounts ==
    ~before.exists => DefaultBatchCounted

C15_Witness ==
    /\ ~before.exists
    /\ pc = "done"
    /\ num_commits = DefaultCommits
    /\ days_back = DefaultDaysBack
    /\ successful_commits + failed_commits = DefaultCommits
    /\ Len(commits) = successful_commits

\* C15 as stated: the same on every directory that holds no file, the
\* existing empty directory included
C15_EmptyDirectoryBatchCounts ==
    before.disk = {} => DefaultBatchCounted

\* initialize_repo raised: generate_history did nothing after it
InitErrorAborted ==
    pc = "init_failed" =>
        /\ drawn = <<>> /\ commit_dates = <<>>
        /\ calls = <<>> /\ last = NoCall /\ commits = <<>>
        /\ disk = before.disk /\ existing_files = {}
        /\ i = 0 /\ successful_commits = 0 /\ failed_commits = 0

\* C16: initialize_repo raises when repo_path exists without a .git entry, when
\* os.makedirs fails and when the scan of the working tree fails; once it has
\* raised, generate_history ends there: no series, no mutation, no commit, no
\* summary
C16_InitErrorAborts ==
    /\ (pc # "start" /\ before.exists /\ ~(\E p \in before.disk : InGitDir(p))) =>
           pc = "init_failed"
    /\ (pc # "start" /\ before.init_fault \in {"makedirs", "scan"}) =>
           pc = "init_failed"
    /\ InitErrorAborted

\* the calls of generate_commit that returned True, in order: one per commit
Accepted(c) == c.ok
AcceptedCalls == SelectSeq(calls, Accepted)

\* C17: every commit requested carries an author of self.authors and a date
\* override equal to the date passed to generate_commit, cut to the second,
\* and the date recorded for the commit made, as get_repo_statistics reads it,
\* is that date
C17_CommitDateAndAuthor ==
    /\ last.request # <<>> =>
           /\ last.request[1].author \in Authors
           /\ last.request[1].date = <<strftime(calls[Len(calls)].date)>>
    /\ Len(commits) = Len(AcceptedCalls)
    /\ \A j \in 1..Len(commits) :
           commits[j].committed_date = strftime(AcceptedCalls[j].date)

\* C19: a create is named file_<n+1>.txt, n being the size of the tracked set
\* when the name is made; when that name is already tracked the create
\* overwrites the file and the tracked set keeps its size, otherwise the set
\* grows by one
C19_CreateNameFromSize ==
    last.kind = "create" =>
        /\ last.target = <<"f", "i", "l", "e", "_">>
                            \o Dec(Cardinality(last.tracked) + 1)
                            \o <<".", "t", "x", "t">>
        /\ (last.changed /\ last.target \in last.tracked) =>
               /\ existing_files = last.tracked
               /\ Cardinality(existing_files) = Cardinality(last.tracked)
               /\ last.target \in disk
        /\ (last.changed /\ last.target \notin last.tracked) =>
               Cardinality(existing_files) = Cardinality(last.tracked) + 1

C19_Witness ==
    /\ last.kind = "create"
    /\ last.changed
    /\ last.on_disk
    /\ last.target \in last.tracked
    /\ last.tracked = {FileName(1)}
    /\ disk = {HeadFile, FileName(1)}

\* C20: the mutation of a call whose git add or git commit failed stays in the
\* tracked set and on disk and is counted as not yet committed; the commit of a
\* later call that returns True takes every change the working tree holds, so
\* that the last commit and the working tree then have the same files; a slot
\* makes at most max_attempts calls, hence at most 3 mutations
C20_NoRollback ==
    /\ (last.changed /\ last.outcome = "false") =>
           /\ last.kind = "create" =>
                  last.target \in existing_files /\ last.target \in disk
           /\ last.kind = "modify" =>
                  last.target \in disk /\ existing_files = last.tracked
           /\ last.kind = "delete" =>
                  last.target \notin existing_files /\ last.target \notin disk
           /\ pending = last.mutations
           /\ pending >= 1
           /\ last.target \in dirty \/ last.target \notin head \cup disk
    /\ last.outcome = "true" =>
           /\ last.mutations >= 1
           /\ last.changes # {}
           /\ pending = 0
           /\ dirty = {}
           /\ head = WorkTree(disk)
    /\ \A k \in 1..i : Cardinality(CallsOf(k)) <= max_attempts

C20_Witness ==
    /\ last.outcome = "true"
    /\ last.mutations = max_attempts + 1
    /\ Cardinality(last.changes) >= 2
    /\ i = 2
    /\ Cardinality(CallsOf(1)) = max_attempts
    /\ pending = 0

\* C21: the commits made in the batch are as many as the calls of
\* generate_commit that returned True, a call returns True exactly when git
\* commit made a commit, the counted slots that succeeded are as many as the
\* commits made and the failed ones made none, and a batch that ends has made
\* between num_commits and 3 * num_commits calls
C21_CommitsEqualSuccesses ==
    /\ Len(commits) = Len(AcceptedCalls)
    /\ last.kind # "none" => (last.outcome = "true" <=> last.accepted)
    /\ pc \in {"for", "while", "done"} =>
           /\ Len(commits) = Cardinality({k \in 1..i : Succeeded(k)})
           /\ Len(commits) + failed_commits =
                  Processed + (IF pc = "while" /\ success THEN 1 ELSE 0)
    /\ pc \in {"for", "done"} => Len(commits) = successful_commits
    /\ pc = "done" =>
           /\ Len(calls) >= num_commits
           /\ Len(calls) <= max_attempts * num_commits

C21_Witness ==
    /\ pc = "done"
    /\ num_commits = 2
    /\ Len(calls) = max_attempts + 1
    /\ Len(commits) = 1
    /\ successful_commits = 1
    /\ failed_commits = 1
    /\ last.accepted

====
